---- MODULE Spec2Model ----
(***************************************************************************)
(* The school timetable manager of src/tt.py: three SQLite tables          *)
(* (teachers, subjects, timetable), the two Setup forms, the absentee      *)
(* multiselects, the generate buttons, and the timetable viewer/editor.    *)
(*                                                                         *)
(* Text that the code takes apart (GRADE-SECTION keys, "subj-teacher"      *)
(* cells, registered names, comma-separated sections) is a sequence of     *)
(* one-character strings, so that split and the f-string join are          *)
(* computed.  Day names are only compared and used as dictionary keys;     *)
(* they are atomic strings.  The id column of every table is written by    *)
(* AUTOINCREMENT and read by no statement; a table is the sequence of its   *)
(* rows in rowid order, without the id.                                    *)
(*                                                                         *)
(* Every table variable is the committed content of the database file.     *)
(* write_lock is TRUE while a connection that save_timetable abandoned     *)
(* with an open transaction still exists: SQLite then lets other           *)
(* connections read the committed content and refuses their writes         *)
(* ("database is locked").  When the interpreter finalises the abandoned   *)
(* connection is not fixed by the code: CollectGarbage may happen at any   *)
(* time, immediately included.                                             *)
(*                                                                         *)
(* Every browser session runs the script on the same database file.        *)
(* in_flight is the number of script runs that are inside                  *)
(* generate_ai_timetable, waiting for model.generate_content (line 81) to  *)
(* return: they hold no connection (line 71 closed it), and any other      *)
(* session's run may commit before their save_timetable starts.            *)
(*                                                                         *)
(* The run in which "Save Changes" is pressed reads the database three     *)
(* times, each on a connection of its own, before it writes: the           *)
(* grade-sections (line 152), the rows of the selected one (lines          *)
(* 169-170), and the registered names (lines 180-181).  editing is the bag *)
(* of such runs that have read and not yet written, each with what it has  *)
(* read so far; other runs may commit in between.  Names are only ever     *)
(* appended and the run uses them only to look up the texts of its own     *)
(* rows, so reading them is one step with the write that follows.          *)
(***************************************************************************)
EXTENDS Integers, Sequences, FiniteSets, Bags, TLC

VARIABLES teachers, subjects, timetable, absentees, secrets, write_lock,
          in_flight, editing, last

vars == <<teachers, subjects, timetable, absentees, secrets, write_lock,
          in_flight, editing, last>>

(***************************************************************************)
(* Bounds of the model.                                                    *)
(***************************************************************************)
MaxTeachers == 1
MaxSubjects == 1
MaxPeriods == 3
MaxInFlight == 2
MaxEditing == 1

(***************************************************************************)
(* Program constants.                                                      *)
(***************************************************************************)
WEEKDAYS == <<"Monday", "Tuesday", "Wednesday", "Thursday", "Friday">>

GridPeriods == 8

WeekdaySet == {WEEKDAYS[k] : k \in 1..Len(WEEKDAYS)}

(***************************************************************************)
(* Python string operations used by the code.                              *)
(***************************************************************************)
Hyphen == "-"

Comma == ","

Contains(s, c) == \E k \in 1..Len(s) : s[k] = c

FirstAt(s, c) == CHOOSE k \in 1..Len(s) : s[k] = c /\ \A j \in 1..(k - 1) : s[j] # c

\* s.split(c): every part between occurrences of c, empty parts included.
RECURSIVE split(_, _)
split(s, c) ==
    IF ~Contains(s, c) THEN <<s>>
    ELSE LET k == FirstAt(s, c)
         IN <<SubSeq(s, 1, k - 1)>> \o split(SubSeq(s, k + 1, Len(s)), c)

\* s.split(c, 1): cut at the first occurrence only.
split_once(s, c) ==
    IF ~Contains(s, c) THEN <<s>>
    ELSE LET k == FirstAt(s, c)
         IN <<SubSeq(s, 1, k - 1), SubSeq(s, k + 1, Len(s))>>

\* f"{a}-{b}"
fmt(a, b) == a \o <<Hyphen>> \o b

\* list.index(x): the first position (0-based), or ValueError.
InList(names, x) == \E k \in 1..Len(names) : names[k] = x

index(names, x) == (CHOOSE k \in 1..Len(names) : names[k] = x /\ \A j \in 1..(k - 1) : names[j] # x) - 1

(***************************************************************************)
(* save_timetable.  A timetable_dict is [isdict, items]: items is the      *)
(* dictionary in iteration order, a sequence of [key, days], days a        *)
(* sequence of [day, periods], periods a sequence of cell strings; keys    *)
(* are distinct, as in any Python dict.  isdict = FALSE is a JSON value    *)
(* under "timetable" that has no .items().                                 *)
(***************************************************************************)
\* Lines 94-97: the cell before and after its first hyphen.
split_cell_last(val) ==
    IF Contains(val, Hyphen)
    THEN LET parts == split(val, Hyphen)
         IN [subject |-> parts[1], teacher |-> parts[Len(parts)]]
    ELSE [subject |-> val, teacher |-> <<>>]

split_cell(val) ==
    IF Contains(val, Hyphen)
    THEN LET parts == split_once(val, Hyphen)
         IN [subject |-> parts[1], teacher |-> parts[2]]
    ELSE [subject |-> val, teacher |-> <<>>]

\* Lines 93-99: one INSERT per cell of a day, period = 1-based position.
insert_periods(grade, section, day, periods) ==
    [i \in 1..Len(periods) |->
        LET cell == split_cell(periods[i])
        IN [grade |-> grade, section |-> section, day |-> day, period |-> i,
            subject |-> cell.subject, teacher |-> cell.teacher]]

\* Line 92: the days of one section, in dictionary order.
RECURSIVE insert_days(_, _, _)
insert_days(grade, section, days) ==
    IF days = <<>> THEN <<>>
    ELSE insert_periods(grade, section, Head(days).day, Head(days).periods)
         \o insert_days(grade, section, Tail(days))

\* Lines 90-99: the INSERTs executed on the connection, in order, until the
\* loop ends or line 91 raises (the key does not unpack into two parts).
RECURSIVE run_inserts(_, _)
run_inserts(items, work) ==
    IF items = <<>> THEN [rows |-> work, raised |-> FALSE]
    ELSE LET parts == split(Head(items).key, Hyphen)
         IN IF Len(parts) # 2 THEN [rows |-> work, raised |-> TRUE]
            ELSE run_inserts(Tail(items),
                             work \o insert_days(parts[1], parts[2], Head(items).days))

\* Line 89: DELETE FROM timetable, inside the connection's implicit transaction.
delete_all_skipped(table) == table

delete_all(table) == <<>>

\* Lines 100-101 and 56-57: sqlite3's default connection opens a transaction at
\* the first DELETE/INSERT; only conn.commit() publishes it.  When an exception
\* leaves the function, nothing was committed.
conn_end_autocommit(before, work, raised) == work

conn_end(before, work, raised) == IF raised THEN before ELSE work

\* Lines 86-101.  locked: another connection holds the write lock, and the
\* DELETE of line 89 raises OperationalError.  leaks: the function was left by
\* an exception after its DELETE, so neither commit() nor close() of lines
\* 100-101 ran and its connection keeps the write lock.
save_timetable(table, locked, timetable_dict) ==
    IF locked
    THEN [table |-> table, raised |-> TRUE, executed |-> 0, leaks |-> FALSE]
    ELSE LET deleted == delete_all(table)
             run == IF timetable_dict.isdict
                    THEN run_inserts(timetable_dict.items, deleted)
                    ELSE [rows |-> deleted, raised |-> TRUE]
         IN [table |-> conn_end(table, run.rows, run.raised),
             raised |-> run.raised,
             executed |-> Len(run.rows),
             leaks |-> run.raised]

(***************************************************************************)
(* generate_ai_timetable.  The model's answer is what json.loads makes of  *)
(* response.text: kind "call_failed" (generate_content raised),            *)
(* "not_json" (json.loads raised), "no_timetable" (JSON without the key),  *)
(* or "json" with the value under "timetable".  The prompt (teachers,      *)
(* subjects, and the absentees argument) is only sent; nothing the code    *)
(* reads back depends on it.                                               *)
(***************************************************************************)
ResponseKinds == {"call_failed", "not_json", "no_timetable", "json"}

\* Lines 62-84.  has_key: st.secrets holds GEMINI_API_KEY (line 63 raises
\* KeyError otherwise, before any call is made).
NotCalled(table, calls) ==
    [table |-> table, calls |-> calls, save_called |-> FALSE, raised |-> TRUE,
     executed |-> 0, leaks |-> FALSE]

\* Lines 81-84: what the rest of the function does with the answer.
generate_returns_default_empty(table, locked, response) ==
    IF response.kind \in {"call_failed", "not_json"} THEN NotCalled(table, 1)
    ELSE LET saved == save_timetable(table, locked,
                                     IF response.kind = "json" THEN response.timetable
                                     ELSE [isdict |-> TRUE, items |-> <<>>])
         IN [table |-> saved.table, calls |-> 1, save_called |-> TRUE,
             raised |-> saved.raised, executed |-> saved.executed, leaks |-> saved.leaks]

generate_returns(table, locked, response) ==
    IF response.kind # "json" THEN NotCalled(table, 1)
    ELSE LET saved == save_timetable(table, locked, response.timetable)
         IN [table |-> saved.table, calls |-> 1, save_called |-> TRUE,
             raised |-> saved.raised, executed |-> saved.executed, leaks |-> saved.leaks]

\* Lines 62-84 as one call, on the table that save_timetable finds.
generate_ai_timetable(table, locked, has_key, absent, response) ==
    IF ~has_key THEN NotCalled(table, 0)
    ELSE generate_returns(table, locked, response)

(***************************************************************************)
(* The Setup forms.                                                        *)
(***************************************************************************)
\* Lines 117-121: if submitted and name and subject: INSERT INTO teachers.
\* The INSERT raises while another connection holds the write lock.
add_teacher(table, locked, name, subject, grades) ==
    IF name # <<>> /\ subject # <<>> /\ ~locked
    THEN Append(table, [name |-> name, subject |-> subject, grades |-> grades])
    ELSE table

\* Lines 130-135: if submitted and sub_name and grade: INSERT INTO subjects.
\* The sections column holds json.dumps(sections.split(",")), read back only by
\* json.loads (line 75): the row keeps the list.
add_subject(table, locked, sub_name, grade, sections, periods) ==
    IF sub_name # <<>> /\ grade # <<>> /\ ~locked
    THEN Append(table, [name |-> sub_name, grade |-> grade,
                        sections |-> split(sections, Comma),
                        periods_per_week |-> periods])
    ELSE table

\* Lines 143, 180: SELECT name FROM teachers.
teacher_names(table) == [k \in 1..Len(table) |-> table[k].name]

\* Line 181: SELECT name FROM subjects.
subject_names(table) == [k \in 1..Len(table) |-> table[k].name]

(***************************************************************************)
(* The Timetable tab.                                                      *)
(***************************************************************************)
\* Line 152: SELECT DISTINCT grade, section FROM timetable.
grades_sections(table) == {<<table[k].grade, table[k].section>> : k \in 1..Len(table)}

\* Line 156: the options of the grade-section selectbox.
gs_options(table) == {fmt(gs[1], gs[2]) : gs \in grades_sections(table)}

\* Lines 169-170: the rows of the selected grade-section, params = selected_gs.split("-").
df(table, selected_gs) ==
    LET params == split(selected_gs, Hyphen)
    IN SelectSeq(table, LAMBDA row : row.grade = params[1] /\ row.section = params[2])

\* Python list indexing on a list of 8: -8..7, negative counted from the end.
list_pos(i) == IF i < 0 THEN i + GridPeriods + 1 ELSE i + 1

\* Lines 175-176 complete without KeyError or IndexError.
grid_ok(frame) ==
    \A k \in 1..Len(frame) :
        /\ frame[k].day \in WeekdaySet
        /\ frame[k].period - 1 \in (0 - GridPeriods)..(GridPeriods - 1)

\* Lines 174-176: 8 empty cells per weekday, then each row written in order.
timetable_grid(frame) ==
    [day \in WeekdaySet |->
        [i \in 1..GridPeriods |->
            LET hits == {k \in 1..Len(frame) :
                            frame[k].day = day /\ list_pos(frame[k].period - 1) = i}
            IN IF hits = {} THEN <<>>
               ELSE LET k == CHOOSE m \in hits : \A n \in hits : n <= m
                    IN fmt(frame[k].subject, frame[k].teacher)]]

\* Line 187: the index argument of the subject selectbox raises ValueError
\* unless the text before the first hyphen is a registered subject name.
subj_ok(cell, snames) == cell # <<>> => InList(snames, split(cell, Hyphen)[1])

\* Line 188: likewise for the text between the first and second hyphen.
teach_ok(cell, tnames) ==
    (cell # <<>> /\ Contains(cell, Hyphen)) => InList(tnames, split(cell, Hyphen)[2])

edit_ok(grid, snames, tnames) ==
    \A day \in WeekdaySet : \A i \in 1..GridPeriods :
        subj_ok(grid[day][i], snames) /\ teach_ok(grid[day][i], tnames)

\* Lines 187-188: what each selectbox shows before the user touches it.
subj_default(cell, snames) ==
    (<<<<>>>> \o snames)[(IF cell # <<>> THEN index(snames, split(cell, Hyphen)[1]) + 1 ELSE 0) + 1]

teach_default(cell, tnames) ==
    (<<<<>>>> \o tnames)[(IF cell # <<>> /\ Contains(cell, Hyphen)
                          THEN index(tnames, split(cell, Hyphen)[2]) + 1 ELSE 0) + 1]

\* Lines 183-189: the grid after the edit loop.  edits is the set of selectbox
\* pairs the user changed, each [day, i, subj, teach].
edited_grid(grid, snames, tnames, edits) ==
    [day \in WeekdaySet |->
        [i \in 1..GridPeriods |->
            LET mine == {e \in edits : e.day = day /\ e.i = i}
                subj == IF mine = {} THEN subj_default(grid[day][i], snames)
                        ELSE (CHOOSE e \in mine : TRUE).subj
                teach == IF mine = {} THEN teach_default(grid[day][i], tnames)
                         ELSE (CHOOSE e \in mine : TRUE).teach
            IN IF subj # <<>> THEN fmt(subj, teach) ELSE <<>>]]

\* Line 191: {selected_gs: {day: timetable_grid[day] for day in WEEKDAYS}}.
grid_dict(selected_gs, grid) ==
    [isdict |-> TRUE,
     items |-> <<[key |-> selected_gs,
                  days |-> [d \in 1..Len(WEEKDAYS) |->
                              [day |-> WEEKDAYS[d], periods |-> grid[WEEKDAYS[d]]]]]>>]

(***************************************************************************)
(* Inputs.                                                                 *)
(***************************************************************************)
\* Text typed into the forms.
NameInputs == {<<>>, <<"T">>}

SubjectInputs == {<<>>, <<"M">>}

GradeInputs == {<<>>, <<"1">>}

GradesInputs == {<<"1", ",", "2">>}

SectionsInputs == {<<"A", ",", "B">>}

PeriodsPerWeekInputs == {5}

\* Cells a response may hold: subject-teacher, a bare subject, and a teacher
\* whose name has a hyphen of its own.
Cells == {<<"M", "-", "T">>, <<"G">>, <<"M", "-", "T", "-", "U">>}

RECURSIVE SeqsUpTo(_, _)
SeqsUpTo(S, n) ==
    IF n = 0 THEN {<<>>}
    ELSE LET shorter == SeqsUpTo(S, n - 1)
         IN shorter \cup {Append(p, c) : p \in {q \in shorter : Len(q) = n - 1}, c \in S}

PeriodLists == SeqsUpTo(Cells, MaxPeriods)

ShortLists == {<<>>, <<<<"M", "-", "T">>>>, <<<<"G">>, <<"G">>>>}

\* GRADE-SECTION keys; the last two do not unpack into two parts.
KeyA == <<"1", "-", "A">>

KeyB == <<"1", "-", "B">>

KeyNoHyphen == <<"1", "A">>

KeyTwoHyphens == <<"1", "-", "A", "-", "B">>

KeyLists == {<<>>, <<KeyA>>, <<KeyNoHyphen>>, <<KeyTwoHyphens>>,
             <<KeyA, KeyB>>, <<KeyA, KeyNoHyphen>>, <<KeyTwoHyphens, KeyA>>}

DayLists == {<<>>, <<"Monday">>, <<"Saturday">>, <<"Monday", "Friday">>}

\* The dictionary with the given keys and days; the first section has the
\* periods p on each of its days, every later section the periods q.
BuildDict(keys, days, p, q) ==
    [isdict |-> TRUE,
     items |-> [s \in 1..Len(keys) |->
                  [key |-> keys[s],
                   days |-> [d \in 1..Len(days) |->
                               [day |-> days[d], periods |-> IF s = 1 THEN p ELSE q]]]]]

NotADict == [isdict |-> FALSE, items |-> <<>>]

Dicts == {BuildDict(keys, days, p, q) :
            keys \in KeyLists, days \in DayLists, p \in PeriodLists, q \in ShortLists}

\* The answers the running application is given.
AppLists == {<<<<"M", "-", "T">>>>, <<<<"M", "-", "T">>, <<"G">>>>}

AppDicts ==
    {BuildDict(keys, <<"Monday">>, p, <<<<"M", "-", "T">>>>) :
        keys \in {<<>>, <<KeyA>>, <<KeyA, KeyB>>, <<KeyA, KeyNoHyphen>>}, p \in AppLists}
    \cup {BuildDict(<<KeyA>>, <<"Saturday">>, <<<<"M", "-", "T">>>>, <<>>)}

Responses ==
    {[kind |-> "json", timetable |-> d] : d \in AppDicts \cup {NotADict}}
    \cup {[kind |-> k, timetable |-> NotADict] : k \in ResponseKinds \ {"json"}}

\* The selectbox pairs of the editor that the user changes.
EditSlots == {<<"Monday", 1>>, <<"Friday", 8>>}

\* The days whose absentee multiselect is used.
AbsenceDays == {"Monday"}

\* timetable.db outlives the process and init_db creates a table only IF NOT
\* EXISTS (lines 28-54): the application starts on whatever an earlier run
\* stored.  The stored timetables are those save_timetable writes.
StoredTables ==
    {save_timetable(<<>>, FALSE, d).table :
        d \in {BuildDict(keys, <<"Monday">>, <<<<"M", "-", "T">>>>, <<<<"G">>>>) :
                 keys \in {<<>>, <<KeyA>>, <<KeyA, KeyB>>}}}

(***************************************************************************)
(* State.  last records the operation that produced the state: its name,   *)
(* its inputs, what it did, and (had_rows) whether it found timetable rows.*)
(***************************************************************************)
Op(op, a, b, gs, arg, kind, calls, save_called, raised, executed, edits, had_rows) ==
    [op |-> op, a |-> a, b |-> b, gs |-> gs, arg |-> arg, kind |-> kind,
     calls |-> calls, save_called |-> save_called, raised |-> raised,
     executed |-> executed, edits |-> edits, had_rows |-> had_rows]

NoOp(op) == Op(op, <<>>, <<>>, <<>>, NotADict, "", 0, FALSE, FALSE, 0, 0, FALSE)

Init ==
    /\ teachers = <<>>
    /\ subjects = <<>>
    /\ timetable \in StoredTables
    /\ absentees = [day \in WeekdaySet |-> {}]
    /\ secrets \in BOOLEAN
    /\ write_lock = FALSE
    /\ in_flight = 0
    /\ editing = EmptyBag
    /\ last = NoOp("start")

\* Lines 113-122.
AddTeacher ==
    \E name \in NameInputs, subject \in SubjectInputs, grades \in GradesInputs :
        /\ Len(add_teacher(teachers, write_lock, name, subject, grades)) <= MaxTeachers
        /\ teachers' = add_teacher(teachers, write_lock, name, subject, grades)
        /\ last' = [NoOp("add_teacher") EXCEPT
                        !.a = name, !.b = subject,
                        !.raised = (name # <<>> /\ subject # <<>> /\ write_lock)]
        /\ UNCHANGED <<subjects, timetable, absentees, secrets, write_lock, in_flight, editing>>

\* Lines 125-136.
AddSubject ==
    \E sub_name \in SubjectInputs, grade \in GradeInputs,
       sections \in SectionsInputs, periods \in PeriodsPerWeekInputs :
        /\ Len(add_subject(subjects, write_lock, sub_name, grade, sections, periods))
              <= MaxSubjects
        /\ subjects' = add_subject(subjects, write_lock, sub_name, grade, sections, periods)
        /\ last' = [NoOp("add_subject") EXCEPT
                        !.a = sub_name, !.b = grade,
                        !.raised = (sub_name # <<>> /\ grade # <<>> /\ write_lock)]
        /\ UNCHANGED <<teachers, timetable, absentees, secrets, write_lock, in_flight, editing>>

\* Lines 139-146: one multiselect set to a selection of the registered names.
MarkAbsentees ==
    \E day \in AbsenceDays :
    \E chosen \in SUBSET {teacher_names(teachers)[k] : k \in 1..Len(teachers)} :
        /\ absentees' = [absentees EXCEPT ![day] = chosen]
        /\ last' = NoOp("mark_absentees")
        /\ UNCHANGED <<teachers, subjects, timetable, secrets, write_lock, in_flight, editing>>

\* Lines 155-165 and 62-81: a generate button exists only below
\* "if grades_sections".  Both buttons run the same two statements.  The run
\* reads the secret (line 63 raises KeyError without it, and the run is over),
\* reads teachers and subjects for the prompt, closes its connection and sends
\* the one request of line 81.
Generate ==
    /\ grades_sections(timetable) # {}
    /\ IF secrets
       THEN /\ in_flight < MaxInFlight
            /\ in_flight' = in_flight + 1
            /\ last' = [NoOp("generate_sent") EXCEPT !.calls = 1]
       ELSE /\ in_flight' = in_flight
            /\ last' = [NoOp("generate") EXCEPT !.raised = TRUE,
                                                !.had_rows = (timetable # <<>>)]
    /\ UNCHANGED <<teachers, subjects, timetable, absentees, secrets, write_lock, editing>>

GenerateWithAI == Generate

ResetToAISuggestion == Generate

\* Lines 81-84: generate_content returns or raises in a run that was waiting,
\* and the run goes on with the table as it is by now.
GenerateReturns ==
    \E response \in Responses :
        /\ in_flight > 0
        /\ in_flight' = in_flight - 1
        /\ LET done == generate_returns(timetable, write_lock, response)
           IN /\ timetable' = done.table
              /\ write_lock' = (write_lock \/ done.leaks)
              /\ last' = Op("generate", <<>>, <<>>, <<>>, response.timetable,
                            response.kind, done.calls, done.save_called, done.raised,
                            done.executed, 0, timetable # <<>>)
        /\ UNCHANGED <<teachers, subjects, absentees, secrets, editing>>

\* Lines 152-156 of a run in which "Save Changes" is pressed: the run reads the
\* grade-sections and the selectbox returns one of them.
SelectGradeSection ==
    /\ BagCardinality(editing) < MaxEditing
    /\ \E selected_gs \in gs_options(timetable) :
          editing' = editing (+) SetToBag({[gs |-> selected_gs, read |-> FALSE,
                                            frame |-> <<>>]})
    /\ UNCHANGED <<teachers, subjects, timetable, absentees, secrets, write_lock,
                   in_flight, last>>

\* Lines 169-176: the run reads the rows of its grade-section and fills the
\* grid; a KeyError or IndexError of line 176 ends it.
ReadTimetable ==
    \E run \in BagToSet(editing) :
        /\ ~run.read
        /\ LET frame == df(timetable, run.gs)
           IN editing' = (editing (-) SetToBag({run}))
                         (+) (IF grid_ok(frame)
                              THEN SetToBag({[run EXCEPT !.read = TRUE, !.frame = frame]})
                              ELSE EmptyBag)
        /\ UNCHANGED <<teachers, subjects, timetable, absentees, secrets, write_lock,
                       in_flight, last>>

\* Lines 180-192: the run reads the registered names, runs the editor on its
\* grid (a ValueError or IndexError of line 187 or 188 ends it), and the pressed
\* button calls save_timetable.
SaveChanges ==
    \E run \in BagToSet(editing) :
    LET snames == subject_names(subjects)
        tnames == teacher_names(teachers)
        grid == timetable_grid(run.frame)
    IN /\ run.read
       /\ editing' = editing (-) SetToBag({run})
       /\ IF edit_ok(grid, snames, tnames)
          THEN \E edits \in {{}} \cup
                  {{[day |-> slot[1], i |-> slot[2], subj |-> subj, teach |-> teach]} :
                      slot \in EditSlots,
                      subj \in {<<>>} \cup {snames[k] : k \in 1..Len(snames)},
                      teach \in {<<>>} \cup {tnames[k] : k \in 1..Len(tnames)}} :
                  LET arg == grid_dict(run.gs, edited_grid(grid, snames, tnames, edits))
                      saved == save_timetable(timetable, write_lock, arg)
                  IN /\ timetable' = saved.table
                     /\ write_lock' = (write_lock \/ saved.leaks)
                     /\ last' = Op("save_changes", <<>>, <<>>, run.gs, arg, "", 0, TRUE,
                                   saved.raised, saved.executed, Cardinality(edits),
                                   timetable # <<>>)
          ELSE UNCHANGED <<timetable, write_lock, last>>
       /\ UNCHANGED <<teachers, subjects, absentees, secrets, in_flight>>

\* The interpreter finalises the connection that save_timetable abandoned: its
\* transaction is rolled back and the write lock released.
CollectGarbage ==
    /\ write_lock
    /\ write_lock' = FALSE
    /\ UNCHANGED <<teachers, subjects, timetable, absentees, secrets, in_flight, editing,
                   last>>

Next ==
    \/ AddTeacher
    \/ AddSubject
    \/ MarkAbsentees
    \/ GenerateWithAI
    \/ ResetToAISuggestion
    \/ GenerateReturns
    \/ SelectGradeSection
    \/ ReadTimetable
    \/ SaveChanges
    \/ CollectGarbage

Spec == Init /\ [][Next]_vars

(***************************************************************************)
(* save_timetable and generate_ai_timetable as functions: one call on an   *)
(* argument drawn from Dicts, on a stored table.                           *)
(***************************************************************************)
FnInit ==
    /\ teachers = <<>>
    /\ subjects = <<>>
    /\ timetable \in StoredTables
    /\ absentees \in {[day \in WeekdaySet |-> IF day \in AbsenceDays THEN a ELSE {}] :
                        a \in SUBSET {<<"T">>}}
    /\ secrets \in BOOLEAN
    /\ write_lock \in BOOLEAN
    /\ in_flight = 0
    /\ editing = EmptyBag
    /\ \E kind \in ResponseKinds, d \in Dicts \cup {NotADict} :
          last = [NoOp("pending") EXCEPT !.arg = d, !.kind = kind]

CallSave ==
    /\ last.op = "pending"
    /\ last.kind = "json"
    /\ LET saved == save_timetable(timetable, write_lock, last.arg)
       IN /\ timetable' = saved.table
          /\ write_lock' = (write_lock \/ saved.leaks)
          /\ last' = [last EXCEPT !.op = "save", !.save_called = TRUE,
                                  !.raised = saved.raised, !.executed = saved.executed,
                                  !.had_rows = (timetable # <<>>)]
    /\ UNCHANGED <<teachers, subjects, absentees, secrets, in_flight, editing>>

CallGenerate ==
    /\ last.op = "pending"
    /\ LET done == generate_ai_timetable(timetable, write_lock, secrets, absentees,
                                         [kind |-> last.kind, timetable |-> last.arg])
       IN /\ timetable' = done.table
          /\ write_lock' = (write_lock \/ done.leaks)
          /\ last' = [last EXCEPT !.op = "generate", !.calls = done.calls,
                                  !.save_called = done.save_called,
                                  !.raised = done.raised, !.executed = done.executed,
                                  !.had_rows = (timetable # <<>>)]
    /\ UNCHANGED <<teachers, subjects, absentees, secrets, in_flight, editing>>

FnNext == CallSave \/ CallGenerate

FnSpec == FnInit /\ [][FnNext]_vars

(***************************************************************************)
(* Vocabulary of the properties.                                           *)
(***************************************************************************)
HyphenCount(s) == Cardinality({k \in 1..Len(s) : s[k] = Hyphen})

\* A response of the promised shape: GRADE-SECTION -> day -> list of cells.
WellFormed(d) ==
    d.isdict /\ \A s \in 1..Len(d.items) : HyphenCount(d.items[s].key) = 1

\* Every (section, day, position) of a dictionary.
Slots(d) ==
    UNION {UNION {{<<s, dd, i>> : i \in 1..Len(d.items[s].days[dd].periods)} :
                    dd \in 1..Len(d.items[s].days)} :
             s \in 1..Len(d.items)}

SlotKey(d, slot) == d.items[slot[1]].key

SlotDay(d, slot) == d.items[slot[1]].days[slot[2]].day

SlotCell(d, slot) == d.items[slot[1]].days[slot[2]].periods[slot[3]]

SameSlot(r1, r2) ==
    /\ r1.grade = r2.grade /\ r1.section = r2.section
    /\ r1.day = r2.day /\ r1.period = r2.period

IsPrefix(a, b) == Len(a) <= Len(b) /\ SubSeq(b, 1, Len(a)) = a

\* Rule 1 of the prompt broken: one teacher in two sections at one day and period.
DoubleBooked(rows) ==
    \E j, k \in 1..Len(rows) :
        /\ rows[j].day = rows[k].day /\ rows[j].period = rows[k].period
        /\ rows[j].teacher = rows[k].teacher /\ rows[j].teacher # <<>>
        /\ <<rows[j].grade, rows[j].section>> # <<rows[k].grade, rows[k].section>>

\* Rule 2 broken: a section has one subject more than twice in a day.
SubjectThrice(rows) ==
    \E k \in 1..Len(rows) :
        Cardinality({j \in 1..Len(rows) :
                        /\ rows[j].grade = rows[k].grade /\ rows[j].section = rows[k].section
                        /\ rows[j].day = rows[k].day /\ rows[j].subject = rows[k].subject}) > 2

\* Rule 4 broken: a teacher marked absent on a day is scheduled on it.
AbsentScheduled(rows, absent) ==
    \E k \in 1..Len(rows) :
        rows[k].day \in WeekdaySet /\ rows[k].teacher \in absent[rows[k].day]

\* Steps of a run of generate_ai_timetable: the one that sends the request, and
\* the one in which the function is left (by return or by exception).
RunSent == last'.op = "generate_sent" /\ <<last, in_flight>>' # <<last, in_flight>>

RunOver == last'.op = "generate" /\ <<last, in_flight>>' # <<last, in_flight>>

\* The rows of every grade-section other than the selected one.
OtherRows(table, selected_gs) ==
    SelectSeq(table, LAMBDA row : fmt(row.grade, row.section) # selected_gs)

(***************************************************************************)
(* C1 (stated as the claim; the code refutes it).  A first schedule can be *)
(* requested: once teachers and subjects are registered and no timetable   *)
(* is stored yet, the "Generate with AI" click is possible.                *)
(***************************************************************************)
C1_FirstScheduleCanBeRequested ==
    (teachers # <<>> /\ subjects # <<>> /\ timetable = <<>>) => ENABLED GenerateWithAI

\* What the code does instead: an empty timetable table stays empty unless a
\* run that passed "if grades_sections" earlier has not written yet (it waits
\* for its answer, or has read and not saved), because every caller of
\* save_timetable sits below that test.  From a new database no run passes it.
EmptyTimetableIsFinal ==
    [][(timetable = <<>> /\ in_flight = 0 /\ editing = EmptyBag)
          => (timetable' = <<>> /\ in_flight' = 0 /\ editing' = EmptyBag)]_vars

(***************************************************************************)
(* C2 (stated as the claim; the code refutes it).  Whenever the model call *)
(* was made and answered with a well-formed dictionary,                    *)
(* generate_ai_timetable stores it: save_timetable runs and commits, the   *)
(* table has one row per cell of the response, and each row carries its    *)
(* cell's text, whatever rules of the prompt the response breaks.          *)
(***************************************************************************)
C2_ResponseStoredUnchecked ==
    (last.op = "generate" /\ last.calls = 1 /\ last.kind = "json" /\ WellFormed(last.arg))
    => /\ last.save_called /\ ~last.raised
       /\ Len(timetable) = Cardinality(Slots(last.arg))
       /\ \A slot \in Slots(last.arg) : \E k \in 1..Len(timetable) :
            /\ fmt(timetable[k].grade, timetable[k].section) = SlotKey(last.arg, slot)
            /\ timetable[k].day = SlotDay(last.arg, slot)
            /\ timetable[k].period = slot[3]
            /\ timetable[k].subject
                 \o (IF Contains(SlotCell(last.arg, slot), Hyphen) THEN <<Hyphen>> ELSE <<>>)
                 \o timetable[k].teacher = SlotCell(last.arg, slot)

\* What the code does do: nothing between the answer and the INSERTs looks at
\* the rules of the prompt.  A response that double-books a teacher, repeats a
\* subject three times in a day and schedules a teacher marked absent is stored
\* whenever save_timetable returns.
RuleBreakingResponseStored ==
    /\ last.op = "generate" /\ last.kind = "json" /\ WellFormed(last.arg)
    /\ last.save_called /\ ~last.raised
    /\ DoubleBooked(timetable)
    /\ SubjectThrice(timetable)
    /\ AbsentScheduled(timetable, absentees)

(***************************************************************************)
(* C3 as claimed: every click of a generate button makes exactly one model *)
(* call, the run that receives the answer makes no further call, and when  *)
(* the call fails or its text is not JSON with a "timetable" key,          *)
(* save_timetable is not invoked and the three tables are unchanged.       *)
(***************************************************************************)
C3_ExactlyOneCall ==
    [][/\ RunSent => (last'.calls = 1 /\ in_flight' = in_flight + 1)
       /\ RunOver =>
            /\ last'.calls = 1 /\ in_flight' = in_flight - 1
            /\ last'.kind # "json" =>
                  /\ ~last'.save_called
                  /\ UNCHANGED <<teachers, subjects, timetable>>]_vars

(***************************************************************************)
(* C3 as amended: a click makes one model call when the GEMINI_API_KEY     *)
(* secret is configured and none when it is not, never more; when no call  *)
(* is made, the call fails, or its text is not JSON with a "timetable"     *)
(* key, save_timetable is not invoked and the three tables are unchanged.  *)
(***************************************************************************)
C3_AtMostOneCall ==
    [][/\ RunSent =>
            /\ secrets /\ last'.calls = 1 /\ in_flight' = in_flight + 1
            /\ UNCHANGED <<teachers, subjects, timetable>>
       /\ RunOver =>
            /\ last'.calls = (IF secrets THEN 1 ELSE 0)
            /\ in_flight' = in_flight - last'.calls
            /\ (last'.calls = 0 \/ last'.kind # "json") =>
                  /\ ~last'.save_called
                  /\ UNCHANGED <<teachers, subjects, timetable>>]_vars

\* A click answered with JSON that has no "timetable" key, on a stored timetable.
C3_Witness ==
    /\ last.op = "generate" /\ last.calls = 1 /\ last.kind = "no_timetable"
    /\ ~last.save_called /\ timetable # <<>>

(***************************************************************************)
(* C4 (stated as the claim; the code refutes it).  Save Changes leaves the *)
(* stored rows of every grade-section other than the selected one as they  *)
(* were.                                                                   *)
(***************************************************************************)
C4_OtherSectionsKept ==
    [][last'.op = "save_changes" =>
          OtherRows(timetable', last'.gs) = OtherRows(timetable, last'.gs)]_vars

(***************************************************************************)
(* C5 (stated as the claim; the code refutes it).  After a generation or a *)
(* Save Changes that stored a timetable, the Timetable tab renders for     *)
(* every selectable grade-section: the grid construction raises nothing    *)
(* (view and edit mode) and no selectbox of the editor raises.             *)
(***************************************************************************)
C5_GridAlwaysRenders ==
    (last.op \in {"generate", "save_changes"} /\ last.save_called /\ ~last.raised)
    => \A selected_gs \in gs_options(timetable) :
          /\ grid_ok(df(timetable, selected_gs))
          /\ edit_ok(timetable_grid(df(timetable, selected_gs)),
                     subject_names(subjects), teacher_names(teachers))

(***************************************************************************)
(* C6.  When save_timetable(d) returns, the table holds exactly one row    *)
(* for each (key, day, position) of d and nothing else; the row's grade    *)
(* and section are the two hyphen-free parts of the key, its period the    *)
(* 1-based position, its subject and teacher the cell before and after     *)
(* the cell's first hyphen (the whole cell and "" when it has none).       *)
(***************************************************************************)
C6_SaveReplacesTable ==
    (last.op = "save" /\ ~last.raised)
    => /\ Len(timetable) = Cardinality(Slots(last.arg))
       /\ \A slot \in Slots(last.arg) : \E k \in 1..Len(timetable) :
            LET row == timetable[k]
                cell == SlotCell(last.arg, slot)
            IN /\ fmt(row.grade, row.section) = SlotKey(last.arg, slot)
               /\ ~Contains(row.grade, Hyphen) /\ ~Contains(row.section, Hyphen)
               /\ row.day = SlotDay(last.arg, slot)
               /\ row.period = slot[3]
               /\ IF Contains(cell, Hyphen)
                  THEN fmt(row.subject, row.teacher) = cell /\ ~Contains(row.subject, Hyphen)
                  ELSE row.subject = cell /\ row.teacher = <<>>

\* A save over a non-empty table, of two sections, with a cell of two hyphens
\* and a cell of none.
C6_Witness ==
    /\ last.op = "save" /\ ~last.raised /\ last.had_rows
    /\ Len(last.arg.items) = 2
    /\ \E j, k \in 1..Len(timetable) :
          /\ Contains(timetable[j].teacher, Hyphen)
          /\ timetable[k].teacher = <<>> /\ timetable[k].period = 2

(***************************************************************************)
(* C7 (stated as the claim; the code refutes it).  Add Teacher appends one *)
(* teachers row when name and subject are both non-empty and none          *)
(* otherwise; Add Subject likewise for subject name and grade; neither     *)
(* touches another table; and no step of the program removes or rewrites   *)
(* a teachers or subjects row.                                             *)
(***************************************************************************)
C7_FormsOnlyAppend ==
    [][/\ IsPrefix(teachers, teachers')
       /\ IsPrefix(subjects, subjects')
       /\ (last'.op = "add_teacher" /\ <<last, teachers>>' # <<last, teachers>>) =>
            /\ Len(teachers') = Len(teachers)
                                + (IF last'.a # <<>> /\ last'.b # <<>> THEN 1 ELSE 0)
            /\ UNCHANGED <<subjects, timetable>>
       /\ (last'.op = "add_subject" /\ <<last, subjects>>' # <<last, subjects>>) =>
            /\ Len(subjects') = Len(subjects)
                                + (IF last'.a # <<>> /\ last'.b # <<>> THEN 1 ELSE 0)
            /\ UNCHANGED <<teachers, timetable>>]_vars

(***************************************************************************)
(* C8.  A save_timetable call that raises commits nothing: the timetable   *)
(* table read afterwards is the one from before the call, however many     *)
(* statements it had executed.                                             *)
(***************************************************************************)
C8_SaveAllOrNothing ==
    [][(last'.op \in {"save", "generate"} /\ last'.save_called /\ last'.raised)
          => timetable' = timetable]_vars

\* A save that raised after the DELETE and some INSERTs, over a non-empty table.
C8_Witness ==
    /\ last.op = "save" /\ last.raised /\ last.executed > 0
    /\ last.had_rows /\ timetable # <<>>

(***************************************************************************)
(* C9.  The timetable table never holds two rows for one (grade, section,  *)
(* day, period), and the periods stored for one (grade, section, day) are  *)
(* 1..n without a gap.                                                     *)
(***************************************************************************)
C9_OneRowPerSlot ==
    /\ \A j, k \in 1..Len(timetable) : SameSlot(timetable[j], timetable[k]) => j = k
    /\ \A k \in 1..Len(timetable) :
          /\ timetable[k].period >= 1
          /\ timetable[k].period > 1 =>
                \E j \in 1..Len(timetable) :
                    SameSlot(timetable[j], [timetable[k] EXCEPT !.period = @ - 1])

\* A generation that replaced a stored timetable by two sections of two periods.
C9_Witness ==
    /\ last.op = "generate" /\ last.save_called /\ ~last.raised /\ last.had_rows
    /\ Cardinality(grades_sections(timetable)) = 2
    /\ \E k \in 1..Len(timetable) : timetable[k].period = 2

(***************************************************************************)
(* C10 (stated as the claim; the code refutes it).  Save Changes pressed   *)
(* on an untouched editor leaves the selected grade-section's stored rows  *)
(* as they were.                                                           *)
(***************************************************************************)
C10_UneditedSaveKeepsRows ==
    [][(last'.op = "save_changes" /\ last'.edits = 0)
          => df(timetable', last'.gs) = df(timetable, last'.gs)]_vars

====
